---- MODULE Spec2Model ----
(***************************************************************************)
(* InvestingChecker.py: the trade analysis workflow (main) and the         *)
(* functions it calls, with Python's float arithmetic modelled bit for bit *)
(* (IEEE-754 binary64, round to nearest even) on small integer inputs.     *)
(***************************************************************************)
EXTENDS Integers, Sequences, FiniteSets, TLC

VARIABLES
    pc,                         \* position in main, or in a single call
    quote,                      \* the quote provider's response
    data,                       \* get_current_price's return value
    fund,                       \* the fundamentals provider's response
    fundamental_score,
    entered,                    \* the lines of input read for the trade parameters
    target_price,
    stop_loss,
    composite_chance,
    expectancy,
    tech_based_recommendation,
    price_to_day_low_ratio,     \* evaluate_stock_for_trade's local
    final_recommendation,
    chance_threshold,           \* final_decision's parameters
    expectancy_threshold,
    report,                     \* the values of the printed trade analysis
    out,                        \* the messages printed
    exc                         \* the exception that ended the run, if any

vars == <<pc, quote, data, fund, fundamental_score, entered, target_price, stop_loss,
          composite_chance, expectancy, tech_based_recommendation,
          price_to_day_low_ratio, final_recommendation, chance_threshold,
          expectancy_threshold, report, out, exc>>

(***************************************************************************)
(* Natural numbers wider than a machine word, as little-endian sequences   *)
(* of limbs in 0..Base-1 with no leading (high) zero limb.  They carry the *)
(* 53-bit significands of Python floats and their exact sums, products and *)
(* quotients before rounding.                                              *)
(***************************************************************************)
Base == 2^15

NTail(a) == IF a = <<>> THEN <<>> ELSE Tail(a)

NHead(a) == IF a = <<>> THEN 0 ELSE Head(a)

RECURSIVE NNorm(_)
NNorm(a) ==
    IF a = <<>> THEN <<>>
    ELSE IF a[Len(a)] = 0 THEN NNorm(SubSeq(a, 1, Len(a) - 1))
    ELSE a

NFromInt(n) ==
    IF n = 0 THEN <<>>
    ELSE IF n < Base THEN <<n>>
    ELSE IF n < Base * Base THEN <<n % Base, n \div Base>>
    ELSE <<n % Base, (n \div Base) % Base, n \div (Base * Base)>>

RECURSIVE NAddC(_, _, _)
NAddC(a, b, c) ==
    IF a = <<>> /\ b = <<>> THEN (IF c = 0 THEN <<>> ELSE <<c>>)
    ELSE LET x == NHead(a) + NHead(b) + c
         IN  <<x % Base>> \o NAddC(NTail(a), NTail(b), x \div Base)

NAdd(a, b) == NAddC(a, b, 0)

RECURSIVE NSubB(_, _, _)
NSubB(a, b, c) ==
    IF a = <<>> THEN <<>>
    ELSE LET x == NHead(a) - NHead(b) - c
         IN  IF x < 0 THEN <<x + Base>> \o NSubB(NTail(a), NTail(b), 1)
             ELSE <<x>> \o NSubB(NTail(a), NTail(b), 0)

\* a - b for a >= b
NSub(a, b) == NNorm(NSubB(a, b, 0))

RECURSIVE NCmpFrom(_, _, _)
NCmpFrom(a, b, i) ==
    IF i = 0 THEN 0
    ELSE IF a[i] < b[i] THEN -1
    ELSE IF a[i] > b[i] THEN 1
    ELSE NCmpFrom(a, b, i - 1)

\* -1, 0, 1 as a < b, a = b, a > b
NCmp(a, b) ==
    IF Len(a) < Len(b) THEN -1
    ELSE IF Len(a) > Len(b) THEN 1
    ELSE NCmpFrom(a, b, Len(a))

RECURSIVE NMulLimbC(_, _, _)
NMulLimbC(a, d, c) ==
    IF a = <<>> THEN (IF c = 0 THEN <<>> ELSE <<c>>)
    ELSE LET x == Head(a) * d + c
         IN  <<x % Base>> \o NMulLimbC(Tail(a), d, x \div Base)

\* a * d for a limb d
NMulLimb(a, d) == IF d = 0 THEN <<>> ELSE NMulLimbC(a, d, 0)

RECURSIVE NMul(_, _)
NMul(a, b) ==
    IF a = <<>> \/ b = <<>> THEN <<>>
    ELSE LET rest == NMul(a, Tail(b))
         IN  NAdd(NMulLimb(a, Head(b)),
                  IF rest = <<>> THEN <<>> ELSE <<0>> \o rest)

RECURSIVE NDivLimbFrom(_, _, _, _)
NDivLimbFrom(a, d, i, r) ==
    IF i = 0 THEN <<>>
    ELSE LET cur == r * Base + a[i]
         IN  NDivLimbFrom(a, d, i - 1, cur % d) \o <<cur \div d>>

\* floor(a / d) for a limb d > 0
NDivLimb(a, d) == NNorm(NDivLimbFrom(a, d, Len(a), 0))

\* a * 2^k
NShl(a, k) ==
    IF a = <<>> THEN <<>>
    ELSE [i \in 1..(k \div 15) |-> 0] \o NMulLimb(a, 2^(k % 15))

\* floor(a / 2^k)
NShr(a, k) ==
    IF Len(a) <= k \div 15 THEN <<>>
    ELSE NDivLimb(SubSeq(a, (k \div 15) + 1, Len(a)), 2^(k % 15))

RECURSIVE BitLenInt(_)
BitLenInt(n) == IF n = 0 THEN 0 ELSE 1 + BitLenInt(n \div 2)

NBitLen(a) == IF a = <<>> THEN 0 ELSE (Len(a) - 1) * 15 + BitLenInt(a[Len(a)])

RECURSIVE TrailingZerosInt(_)
TrailingZerosInt(n) == IF n % 2 = 1 THEN 0 ELSE 1 + TrailingZerosInt(n \div 2)

RECURSIVE NTrailingZeros(_)
\* for a # 0
NTrailingZeros(a) ==
    IF Head(a) = 0 THEN 15 + NTrailingZeros(Tail(a))
    ELSE TrailingZerosInt(Head(a))

NOdd(a) == a # <<>> /\ Head(a) % 2 = 1

\* bit i of a, bit 0 the lowest
NBit(a, i) ==
    IF Len(a) <= i \div 15 THEN 0 ELSE (a[(i \div 15) + 1] \div 2^(i % 15)) % 2

\* whether a bit of a below bit k is set
NAnyBelow(a, k) ==
    \/ \E i \in 1..(k \div 15) : i <= Len(a) /\ a[i] # 0
    \/ (Len(a) > k \div 15 /\ a[(k \div 15) + 1] % 2^(k % 15) # 0)

(***************************************************************************)
(* Python floats (IEEE-754 binary64, round to nearest, ties to even).  A   *)
(* finite float is (-1)^s * m * 2^e with m below 2^MantBits; it is kept    *)
(* with m odd (or m = 0, e = 0, s = 0) so that equal values are equal      *)
(* records.  The inputs of the model are small integers, so no operation   *)
(* overflows or underflows and the exponent needs no range; the sign of a  *)
(* zero is not kept.                                                       *)
(***************************************************************************)
MantBits == 53

FZero == [s |-> 0, m |-> <<>>, e |-> 0]

FStrip(s, n, e, tz) == [s |-> s, m |-> NShr(n, tz), e |-> e + tz]

\* (-1)^s * n * 2^e for n below 2^MantBits
FCanon(s, n, e) == IF n = <<>> THEN FZero ELSE FStrip(s, n, e, NTrailingZeros(n))

\* q, or q + 1 when the bits cut off (the round bit and the rest) round it up
NRoundUp(q, round, rest) ==
    IF round = 1 /\ (rest \/ NOdd(q)) THEN NAdd(q, <<1>>) ELSE q

FRoundAt(s, n, e, sh) ==
    FCanon(s, NRoundUp(NShr(n, sh), NBit(n, sh - 1), NAnyBelow(n, sh - 1)), e + sh)

\* the float nearest to (-1)^s * n * 2^e, ties to even
FRound(s, n, e) ==
    IF NBitLen(n) <= MantBits THEN FCanon(s, n, e)
    ELSE FRoundAt(s, n, e, NBitLen(n) - MantBits)

FromInt(n) == IF n < 0 THEN FCanon(1, NFromInt(-n), 0) ELSE FCanon(0, NFromInt(n), 0)

FIsZero(a) == a.m = <<>>

FNeg(a) == IF FIsZero(a) THEN a ELSE [a EXCEPT !.s = 1 - a.s]

FAbs(a) == [a EXCEPT !.s = 0]

FMinExp(a, b) == IF a.e < b.e THEN a.e ELSE b.e

\* -1, 0, 1 as |a| < |b|, |a| = |b|, |a| > |b|, for a and b not zero
FCmpAbs(a, b) ==
    NCmp(NShl(a.m, a.e - FMinExp(a, b)), NShl(b.m, b.e - FMinExp(a, b)))

\* -1, 0, 1 as a < b, a = b, a > b
FCmp(a, b) ==
    IF a = b THEN 0
    ELSE IF FIsZero(a) THEN (IF b.s = 1 THEN 1 ELSE -1)
    ELSE IF FIsZero(b) THEN (IF a.s = 1 THEN -1 ELSE 1)
    ELSE IF a.s # b.s THEN (IF a.s = 1 THEN -1 ELSE 1)
    ELSE IF a.s = 0 THEN FCmpAbs(a, b)
    ELSE 0 - FCmpAbs(a, b)

FLt(a, b) == FCmp(a, b) < 0

FLe(a, b) == FCmp(a, b) <= 0

FGt(a, b) == FCmp(a, b) > 0

FGe(a, b) == FCmp(a, b) >= 0

\* (-1)^sa * x * 2^e + (-1)^sb * y * 2^e, rounded
FAddAligned(sa, x, sb, y, e, c) ==
    IF sa = sb THEN FRound(sa, NAdd(x, y), e)
    ELSE IF c = 0 THEN FZero
    ELSE IF c > 0 THEN FRound(sa, NSub(x, y), e)
    ELSE FRound(sb, NSub(y, x), e)

FAddAt(a, b, e) ==
    FAddAligned(a.s, NShl(a.m, a.e - e), b.s, NShl(b.m, b.e - e), e,
                IF a.s = b.s THEN 0 ELSE FCmpAbs(a, b))

FAdd(a, b) ==
    IF FIsZero(a) THEN b
    ELSE IF FIsZero(b) THEN a
    ELSE FAddAt(a, b, FMinExp(a, b))

FSub(a, b) == FAdd(a, FNeg(b))

FMul(a, b) ==
    IF FIsZero(a) \/ FIsZero(b) THEN FZero
    ELSE FRound((a.s + b.s) % 2, NMul(a.m, b.m), a.e + b.e)

\* the quotient q of x * 2^sh by a limb d, doubled, with a sticky lowest bit
\* for a remainder
NQuotientSticky(x, d, q) ==
    NAdd(NMulLimb(q, 2), IF NMulLimb(q, d) = x THEN <<>> ELSE <<1>>)

\* a / b for a divisor of one limb: 58 quotient bits or more, then rounded
FDivLimb(a, b, sh) ==
    FRound((a.s + b.s) % 2,
           NQuotientSticky(NShl(a.m, sh), b.m[1], NDivLimb(NShl(a.m, sh), b.m[1])),
           a.e - b.e - sh - 1)

RECURSIVE DivBits(_, _, _, _)
DivStep(r2, d, q, n) ==
    IF NCmp(r2, d) >= 0
    THEN DivBits(NSub(r2, d), d, 2 * q + 1, n - 1)
    ELSE DivBits(r2, d, 2 * q, n - 1)

\* n steps of binary long division of r / d, r < d: <<quotient, remainder>>,
\* the quotient a limb
DivBits(r, d, q, n) == IF n = 0 THEN <<q, r>> ELSE DivStep(NMulLimb(r, 2), d, q, n)

RECURSIVE DivLimbs(_, _, _, _)
DivLimbsNext(h, d, q, n) == DivLimbs(h[2], d, <<h[1]>> \o q, n - 1)

\* floor(r * Base^n / d) after the limbs q, and the remainder, r < d
DivLimbs(r, d, q, n) ==
    IF n = 0 THEN <<q, r>> ELSE DivLimbsNext(DivBits(r, d, 0, 15), d, q, n)

FDivScaled(a, b, k, qr) ==
    FRound((a.s + b.s) % 2,
           NAdd(NMulLimb(qr[1], 2), IF qr[2] = <<>> THEN <<>> ELSE <<1>>),
           a.e - b.e + k - 61)

\* a / b in general: the operands scaled by 2^k so that d / 2 <= x < d, 60
\* quotient bits by long division, a sticky bit for the remainder, then rounded
FDivLong(a, b, k) ==
    FDivScaled(a, b, k,
               DivLimbs(IF k < 0 THEN NShl(a.m, 0 - k) ELSE a.m,
                        IF k > 0 THEN NShl(b.m, k) ELSE b.m, <<>>, 4))

\* a / b for b # 0
FDiv(a, b) ==
    IF FIsZero(a) THEN FZero
    ELSE IF Len(b.m) = 1 THEN FDivLimb(a, b, 58 + NBitLen(b.m) - NBitLen(a.m))
    ELSE FDivLong(a, b,
                  IF NCmp(NShl(a.m, NBitLen(b.m)), NShl(b.m, NBitLen(a.m))) < 0
                  THEN NBitLen(a.m) - NBitLen(b.m)
                  ELSE NBitLen(a.m) - NBitLen(b.m) + 1)

(***************************************************************************)
(* Python values.  A number is a float record (JSON numbers and parsed     *)
(* input are small integers, which float() and int/float arithmetic carry  *)
(* exactly); None and a raised exception are records of their own, so that *)
(* any two values can be compared.                                         *)
(***************************************************************************)
PyNone == [none |-> TRUE]

Raised(name) == [exc |-> name]

IsNone(v) == "none" \in DOMAIN v

IsExc(v) == "exc" \in DOMAIN v

IsNum(v) == "m" \in DOMAIN v

\* `not v`
Falsy(v) == IsNone(v) \/ (IsNum(v) /\ FIsZero(v))

\* a / b
TrueDiv(a, b) == IF FIsZero(b) THEN Raised("ZeroDivisionError") ELSE FDiv(a, b)

\* min(a, b) and max(a, b): the first argument unless the second is smaller (larger)
PyMin(a, b) == IF FLt(b, a) THEN b ELSE a

PyMax(a, b) == IF FGt(b, a) THEN b ELSE a

\* a lenient reading of a line of input, which takes unreadable text for zero
PyFloatLenient(text) ==
    IF "numeral" \in DOMAIN text THEN FromInt(text.numeral) ELSE FromInt(0)

\* float(text) of a line of input
PyFloat(text) ==
    IF "numeral" \in DOMAIN text THEN FromInt(text.numeral) ELSE Raised("ValueError")

Half == FDiv(FromInt(1), FromInt(2))

One == FromInt(1)

Two == FromInt(2)

(***************************************************************************)
(* get_current_price                                                       *)
(***************************************************************************)
get_current_price(response) ==
    IF response.status # "ok"
    THEN [ret |-> PyNone, out |-> <<<<"Error fetching data", response.status>>>>]
    ELSE IF response.json = <<>>
    THEN [ret |-> PyNone, out |-> <<<<"No data returned for ticker">>>>]
    ELSE LET stock_data == response.json[1]
         IN  IF IsNone(stock_data.price)
             THEN [ret |-> PyNone, out |-> <<<<"Error fetching data", "TypeError">>>>]
             ELSE [ret |-> [current_price |-> stock_data.price,
                            market_cap |-> stock_data.marketCap,
                            day_high |-> stock_data.dayHigh,
                            day_low |-> stock_data.dayLow,
                            price_avg50 |-> stock_data.priceAvg50,
                            price_avg200 |-> stock_data.priceAvg200],
                   out |-> <<>>]

(***************************************************************************)
(* get_fundamental_score                                                   *)
(***************************************************************************)
\* the test of line 51 with `is None` in place of `not` for the latest revenue
InsufficientFieldsByAbsence(revenue_latest, revenue_previous, net_income_latest) ==
    \/ IsNone(revenue_latest)
    \/ Falsy(revenue_previous)
    \/ IsNone(net_income_latest)

\* line 51: the fields from which no score is computed
InsufficientFields(revenue_latest, revenue_previous, net_income_latest) ==
    \/ Falsy(revenue_latest)
    \/ Falsy(revenue_previous)
    \/ (IsNum(revenue_previous) /\ FIsZero(revenue_previous))
    \/ IsNone(net_income_latest)

\* max(0, min(1, x))
Normalized(x) == PyMax(FZero, PyMin(One, x))

\* lines 60-69, with the handler of line 70 for an exception raised before them
ScoreFromRatios(revenue_growth, profit_margin) ==
    IF IsExc(revenue_growth)
    THEN [ret |-> Half, out |-> <<<<"Error fetching fundamental data", revenue_growth.exc>>>>]
    ELSE IF IsExc(profit_margin)
    THEN [ret |-> Half, out |-> <<<<"Error fetching fundamental data", profit_margin.exc>>>>]
    ELSE [ret |-> FDiv(FAdd(Normalized(profit_margin), Normalized(revenue_growth)), Two),
          out |-> <<<<"Fundamental Score">>>>]

\* lines 54-58
ScoreFromFields(revenue_latest, revenue_previous, net_income_latest) ==
    ScoreFromRatios(
        TrueDiv(FSub(revenue_latest, revenue_previous), revenue_previous),
        IF ~Falsy(revenue_latest) THEN TrueDiv(net_income_latest, revenue_latest) ELSE FZero)

get_fundamental_score(response) ==
    IF response.status # "ok"
    THEN [ret |-> Half, out |-> <<<<"Error fetching fundamental data", response.status>>>>]
    ELSE IF response.json = <<>> \/ Len(response.json) < 2
    THEN [ret |-> Half, out |-> <<<<"Not enough income statement data">>>>]
    ELSE LET latest   == response.json[1]
             previous == response.json[2]
         IN  IF InsufficientFields(latest.revenue, previous.revenue, latest.netIncome)
             THEN [ret |-> Half, out |-> <<>>]
             ELSE ScoreFromFields(latest.revenue, previous.revenue, latest.netIncome)

(***************************************************************************)
(* The probability model, the composite score and the expectancy           *)
(***************************************************************************)
\* the quotient of line 82 without the test of line 80
ChanceUnguarded(stop_loss_distance, target_distance) ==
    TrueDiv(stop_loss_distance, FAdd(stop_loss_distance, target_distance))

\* lines 80-82
ChanceFromDistances(stop_loss_distance, target_distance) ==
    IF FIsZero(FAdd(stop_loss_distance, target_distance))
    THEN Half
    ELSE TrueDiv(stop_loss_distance, FAdd(stop_loss_distance, target_distance))

calculate_technical_chance_of_winning(current_price, target, stop) ==
    ChanceFromDistances(FAbs(FSub(current_price, stop)), FAbs(FSub(target, current_price)))

\* the defaults of w_tech and w_fund, 0.7 and 0.3
W_TECH == FDiv(FromInt(7), FromInt(10))

W_FUND == FDiv(FromInt(3), FromInt(10))

\* a sum of the two scores that ignores the weights
UnweightedChance(technical_chance, score, w_tech, w_fund) ==
    IF IsExc(technical_chance) THEN technical_chance
    ELSE FAdd(technical_chance, score)

\* line 91; an exception raised in line 90 goes on to the caller
WeightedChance(technical_chance, score, w_tech, w_fund) ==
    IF IsExc(technical_chance) THEN technical_chance
    ELSE FAdd(FMul(w_tech, technical_chance), FMul(w_fund, score))

calculate_composite_chance_of_winning(current_price, target, stop, score, w_tech, w_fund) ==
    WeightedChance(calculate_technical_chance_of_winning(current_price, target, stop),
                   score, w_tech, w_fund)

calculate_expectancy(current_price, target, stop, chance_of_winning) ==
    FSub(FMul(chance_of_winning, FSub(target, current_price)),
         FMul(FSub(One, chance_of_winning), FSub(current_price, stop)))

(***************************************************************************)
(* final_decision                                                          *)
(***************************************************************************)
\* the defaults of chance_threshold and expectancy_threshold, 0.55 and 0
CHANCE_THRESHOLD == FDiv(FromInt(55), FromInt(100))

EXPECTANCY_THRESHOLD == FZero

\* the decision with the chance compared strictly
final_decision_strict(chance, expect, c_threshold, e_threshold) ==
    IF FGt(chance, c_threshold) /\ FGt(expect, e_threshold) THEN "Buy"
    ELSE IF FLt(chance, c_threshold) /\ FLt(expect, e_threshold) THEN "Sell"
    ELSE "Hold"

\* the decision buying on either condition
final_decision_either(chance, expect, c_threshold, e_threshold) ==
    IF FGe(chance, c_threshold) \/ FGt(expect, e_threshold) THEN "Buy"
    ELSE IF FLt(chance, c_threshold) /\ FLt(expect, e_threshold) THEN "Sell"
    ELSE "Hold"

\* lines 114-119
final_decision(chance, expect, c_threshold, e_threshold) ==
    IF FGe(chance, c_threshold) /\ FGt(expect, e_threshold) THEN "Buy"
    ELSE IF FLt(chance, c_threshold) /\ FLt(expect, e_threshold) THEN "Sell"
    ELSE "Hold"

(***************************************************************************)
(* evaluate_stock_for_trade.  A comparison or a subtraction with None      *)
(* raises TypeError.  The result carries the return value or the exception *)
(* raised, the ratio computed and the messages printed.                    *)
(***************************************************************************)
SMALL_CAP == 1000000000

SmallCap == FromInt(SMALL_CAP)

\* lines 129-130
MarketCapRule(recommendation, market_cap) ==
    IF FLt(market_cap, SmallCap) THEN "Sell" ELSE recommendation

\* lines 134-137 and 140-143
MovingAverageRule(recommendation, current_price, price_avg) ==
    IF FGt(current_price, price_avg) THEN recommendation ELSE "Sell"

\* lines 147-150
DayRangeRatio(current_price, day_high, day_low) ==
    IF ~FIsZero(FSub(day_high, day_low))
    THEN TrueDiv(FSub(current_price, day_low), FSub(day_high, day_low))
    ELSE Half

\* the literals 0.3 and 0.7 of lines 151 and 154
NEAR_LOW == FDiv(FromInt(3), FromInt(10))

NEAR_HIGH == FDiv(FromInt(7), FromInt(10))

\* a day-range rule that lets an earlier Sell stand
DayRangeRuleKeepingSell(recommendation, ratio) ==
    IF recommendation = "Sell" THEN "Sell"
    ELSE IF FLt(ratio, NEAR_LOW) THEN "Buy"
    ELSE IF FGt(ratio, NEAR_HIGH) THEN "Sell"
    ELSE recommendation

\* lines 151-156
DayRangeRule(recommendation, ratio) ==
    IF FLt(ratio, NEAR_LOW) THEN "Buy"
    ELSE IF FGt(ratio, NEAR_HIGH) THEN "Sell"
    ELSE recommendation

\* the message each rule prints
MarketCapOut(market_cap) ==
    IF FLt(market_cap, SmallCap) THEN <<<<"Small cap: consider selling">>>> ELSE <<>>

MovingAverageOut(current_price, price_avg, days) ==
    IF FGt(current_price, price_avg)
    THEN <<<<"Price is above the moving average", days>>>>
    ELSE <<<<"Price is below the moving average", days>>>>

DayRangeOut(ratio) ==
    IF FLt(ratio, NEAR_LOW) THEN <<<<"Potential buy signal">>>>
    ELSE IF FGt(ratio, NEAR_HIGH) THEN <<<<"Potential sell signal">>>>
    ELSE <<>>

\* lines 151-158, after the ratio of lines 147-150
EvaluateDayRange(recommendation, printed, ratio) ==
    IF IsExc(ratio)
    THEN [ret |-> "none", exc |-> ratio.exc, ratio |-> PyNone, out |-> printed]
    ELSE [ret |-> DayRangeRule(recommendation, ratio), exc |-> "none", ratio |-> ratio,
          out |-> printed \o DayRangeOut(ratio)]

evaluate_stock_for_trade(current_price, market_cap, day_high, day_low, price_avg50, price_avg200) ==
    IF IsNone(market_cap)
    THEN [ret |-> "none", exc |-> "TypeError", ratio |-> PyNone, out |-> <<>>]
    ELSE LET r1 == MarketCapRule("Hold", market_cap)
             o1 == MarketCapOut(market_cap)
         IN
    IF IsNone(price_avg50)
    THEN [ret |-> "none", exc |-> "TypeError", ratio |-> PyNone, out |-> o1]
    ELSE LET r2 == MovingAverageRule(r1, current_price, price_avg50)
             o2 == o1 \o MovingAverageOut(current_price, price_avg50, "50")
         IN
    IF IsNone(price_avg200)
    THEN [ret |-> "none", exc |-> "TypeError", ratio |-> PyNone, out |-> o2]
    ELSE LET r3 == MovingAverageRule(r2, current_price, price_avg200)
             o3 == o2 \o MovingAverageOut(current_price, price_avg200, "200")
         IN
    IF IsNone(day_high) \/ IsNone(day_low)
    THEN [ret |-> "none", exc |-> "TypeError", ratio |-> PyNone, out |-> o3]
    ELSE EvaluateDayRange(r3, o3, DayRangeRatio(current_price, day_high, day_low))

(***************************************************************************)
(* What the two providers and the user can supply                          *)
(***************************************************************************)
MaxPrice == 4

MaxRevenue == 2

Num(S) == {FromInt(n) : n \in S}

Unavailable == {[status |-> "transport_failure"], [status |-> "http_error"]}

MarketCaps == {PyNone, FromInt(SMALL_CAP)}

DayHighs == Num({2, 4})

DayLows == Num({2})

AvgLevels == Num({2})

Snapshots ==
    [price : Num(1..MaxPrice) \cup {PyNone}, marketCap : MarketCaps, dayHigh : DayHighs,
     dayLow : DayLows, priceAvg50 : AvgLevels, priceAvg200 : AvgLevels]

QuoteResponses ==
    Unavailable \cup {[status |-> "ok", json |-> <<>>]}
        \cup {[status |-> "ok", json |-> <<q>>] : q \in Snapshots}

Revenues == Num(0..MaxRevenue) \cup {PyNone}

\* the latest statement, and the one before it, of which only the revenue is read
Statements == [revenue : Revenues, netIncome : {PyNone, One}]

Earlier == [revenue : Revenues, netIncome : {One}]

Periods(S, T) == {<<>>} \cup {<<a>> : a \in S} \cup {<<a, b>> : a \in S, b \in T}

FundResponses ==
    Unavailable \cup {[status |-> "ok", json |-> j] : j \in Periods(Statements, Earlier)}

Inputs == {[numeral |-> n] : n \in 0..MaxPrice} \cup {[garbage |-> TRUE]}

(***************************************************************************)
(* main                                                                    *)
(***************************************************************************)
Init ==
    /\ pc = "start"
    /\ quote = PyNone
    /\ data = PyNone
    /\ fund = PyNone
    /\ fundamental_score = PyNone
    /\ entered = <<>>
    /\ target_price = PyNone
    /\ stop_loss = PyNone
    /\ composite_chance = PyNone
    /\ expectancy = PyNone
    /\ tech_based_recommendation = "unset"
    /\ price_to_day_low_ratio = PyNone
    /\ final_recommendation = "unset"
    /\ chance_threshold = CHANCE_THRESHOLD
    /\ expectancy_threshold = EXPECTANCY_THRESHOLD
    /\ report = PyNone
    /\ out = <<>>
    /\ exc = "none"

\* lines 161-175
FetchQuote ==
    /\ pc = "start"
    /\ \E response \in QuoteResponses :
         LET r == get_current_price(response)
         IN  /\ quote' = response
             /\ data' = r.ret
             /\ IF IsNone(r.ret)
                THEN /\ pc' = "exit"
                     /\ out' = out \o r.out \o <<<<"Could not retrieve the financial data. Exiting.">>>>
                ELSE /\ pc' = "quoted"
                     /\ out' = out \o r.out \o <<<<"Current price">>>>
    /\ UNCHANGED <<fund, fundamental_score, entered, target_price, stop_loss, composite_chance,
                   expectancy, tech_based_recommendation, price_to_day_low_ratio,
                   final_recommendation, chance_threshold, expectancy_threshold,
                   report, exc>>

\* lines 177-178
FetchFundamentals ==
    /\ pc = "quoted"
    /\ \E response \in FundResponses :
         LET r == get_fundamental_score(response)
         IN  /\ fund' = response
             /\ fundamental_score' = r.ret
             /\ out' = out \o r.out
    /\ pc' = "scored"
    /\ UNCHANGED <<quote, data, entered, target_price, stop_loss, composite_chance, expectancy,
                   tech_based_recommendation, price_to_day_low_ratio,
                   final_recommendation, chance_threshold, expectancy_threshold,
                   report, exc>>

\* lines 180-185
ReadTradeParameters ==
    /\ pc = "scored"
    /\ \E target_text \in Inputs, stop_text \in Inputs :
         LET t == PyFloat(target_text)
             s == PyFloat(stop_text)
         IN  IF IsExc(t)
             THEN /\ pc' = "exit"
                  /\ entered' = <<target_text>>
                  /\ out' = out \o <<<<"Invalid input for target price or stop-loss. Exiting.">>>>
                  /\ UNCHANGED <<target_price, stop_loss>>
             ELSE IF IsExc(s)
             THEN /\ pc' = "exit"
                  /\ entered' = <<target_text, stop_text>>
                  /\ out' = out \o <<<<"Invalid input for target price or stop-loss. Exiting.">>>>
                  /\ target_price' = t
                  /\ UNCHANGED stop_loss
             ELSE /\ pc' = "parsed"
                  /\ entered' = <<target_text, stop_text>>
                  /\ target_price' = t
                  /\ stop_loss' = s
                  /\ UNCHANGED out
    /\ UNCHANGED <<quote, data, fund, fundamental_score, composite_chance, expectancy,
                   tech_based_recommendation, price_to_day_low_ratio,
                   final_recommendation, chance_threshold, expectancy_threshold,
                   report, exc>>

\* lines 189-205, after the call of line 188
AnalyseFrom(chance) ==
    IF IsExc(chance)
    THEN /\ pc' = "crashed"
         /\ exc' = chance.exc
         /\ UNCHANGED <<composite_chance, expectancy, tech_based_recommendation,
                        price_to_day_low_ratio, final_recommendation, report, out>>
    ELSE /\ composite_chance' = chance
         /\ expectancy' = calculate_expectancy(data.current_price, target_price, stop_loss,
                                               composite_chance')
         /\ LET tech == evaluate_stock_for_trade(
                            data.current_price, data.market_cap, data.day_high,
                            data.day_low, data.price_avg50, data.price_avg200)
            IN  /\ price_to_day_low_ratio' = tech.ratio
                /\ IF tech.exc # "none"
                   THEN /\ pc' = "crashed"
                        /\ exc' = tech.exc
                        /\ out' = out \o tech.out
                        /\ UNCHANGED <<tech_based_recommendation, final_recommendation,
                                       report>>
                   ELSE /\ pc' = "done"
                        /\ tech_based_recommendation' = tech.ret
                        /\ final_recommendation' =
                               final_decision(composite_chance', expectancy',
                                              chance_threshold, expectancy_threshold)
                        /\ out' = out \o tech.out \o <<<<"--- Trade Analysis ---">>>>
                        /\ report' =
                               [technical_chance |->
                                    calculate_technical_chance_of_winning(
                                        data.current_price, target_price, stop_loss),
                                fundamental_score |-> fundamental_score,
                                composite_chance |-> composite_chance',
                                expectancy |-> expectancy',
                                technical_recommendation |-> tech_based_recommendation',
                                final_decision |-> final_recommendation']
                        /\ UNCHANGED exc

\* lines 187-205
Analyse ==
    /\ pc = "parsed"
    /\ AnalyseFrom(calculate_composite_chance_of_winning(
                       data.current_price, target_price, stop_loss, fundamental_score,
                       W_TECH, W_FUND))
    /\ UNCHANGED <<quote, data, fund, fundamental_score, entered, target_price, stop_loss,
                   chance_threshold, expectancy_threshold>>

Next == FetchQuote \/ FetchFundamentals \/ ReadTradeParameters \/ Analyse

Spec == Init /\ [][Next]_vars

(***************************************************************************)
(* Single calls of final_decision, evaluate_stock_for_trade and            *)
(* get_fundamental_score, on wider inputs than main passes them            *)
(***************************************************************************)
Spread == 2

MaxEvalPrice == 10

MaxAmount == 3

Untouched ==
    /\ quote = PyNone
    /\ entered = <<>>
    /\ target_price = PyNone
    /\ stop_loss = PyNone
    /\ price_to_day_low_ratio = PyNone
    /\ report = PyNone
    /\ out = <<>>
    /\ exc = "none"

\* hundredths around the default 0.55, and ten-thousandths around 0
DecisionChances == {FDiv(FromInt(55 + k), FromInt(100)) : k \in (0 - Spread)..Spread}

DecisionExpectancies == {FDiv(FromInt(k), FromInt(10000)) : k \in (0 - Spread)..Spread}

InitDecision ==
    /\ pc = "call"
    /\ composite_chance \in DecisionChances
    /\ expectancy \in DecisionExpectancies
    /\ chance_threshold \in {CHANCE_THRESHOLD, FDiv(FromInt(54), FromInt(100))}
    /\ expectancy_threshold \in {EXPECTANCY_THRESHOLD, FDiv(FromInt(1), FromInt(10000))}
    /\ final_recommendation = "unset"
    /\ tech_based_recommendation = "unset"
    /\ data = PyNone
    /\ fund = PyNone
    /\ fundamental_score = PyNone
    /\ Untouched

CallFinalDecision ==
    /\ pc = "call"
    /\ pc' = "returned"
    /\ final_recommendation' =
           final_decision(composite_chance, expectancy, chance_threshold, expectancy_threshold)
    /\ UNCHANGED <<quote, data, fund, fundamental_score, entered, target_price, stop_loss,
                   composite_chance, expectancy, tech_based_recommendation,
                   price_to_day_low_ratio, chance_threshold, expectancy_threshold,
                   report, out, exc>>

SpecDecision == InitDecision /\ [][CallFinalDecision]_vars

Recommendations == {"Buy", "Sell", "Hold"}

C9_Docstring ==
    pc = "returned" =>
        /\ (FCmp(composite_chance, chance_threshold) >= 0
                /\ FCmp(expectancy, expectancy_threshold) > 0)
               => final_recommendation = "Buy"
        /\ (FCmp(composite_chance, chance_threshold) < 0
                \/ FCmp(expectancy, expectancy_threshold) < 0)
               => final_recommendation = "Sell"
        /\ final_recommendation = "Hold" =>
               /\ FCmp(composite_chance, chance_threshold) >= 0
               /\ FCmp(expectancy, expectancy_threshold) = 0

\* the integer a float holds, for the small integers of the inputs
IntOf(a) == IF FIsZero(a) THEN 0 ELSE (IF a.s = 1 THEN -1 ELSE 1) * a.m[1] * 2^a.e

EvalSnapshots ==
    [current_price : Num(0..MaxEvalPrice),
     market_cap : {FromInt(SMALL_CAP - 1), FromInt(SMALL_CAP)},
     day_high : Num({0, 10}), day_low : Num({0, 10}),
     price_avg50 : Num({2, 5}), price_avg200 : Num({2, 5})]

InitEvaluate ==
    /\ pc = "call"
    /\ data \in EvalSnapshots
    /\ composite_chance = PyNone
    /\ expectancy = PyNone
    /\ chance_threshold = CHANCE_THRESHOLD
    /\ expectancy_threshold = EXPECTANCY_THRESHOLD
    /\ final_recommendation = "unset"
    /\ tech_based_recommendation = "unset"
    /\ fund = PyNone
    /\ fundamental_score = PyNone
    /\ Untouched

\* the call, and what it returns, raises and prints
Evaluated(tech) ==
    /\ price_to_day_low_ratio' = tech.ratio
    /\ tech_based_recommendation' = IF tech.exc = "none" THEN tech.ret ELSE "unset"
    /\ exc' = tech.exc
    /\ out' = out \o tech.out

CallEvaluate ==
    /\ pc = "call"
    /\ pc' = "returned"
    /\ Evaluated(evaluate_stock_for_trade(
                     data.current_price, data.market_cap, data.day_high, data.day_low,
                     data.price_avg50, data.price_avg200))
    /\ UNCHANGED <<quote, data, fund, fundamental_score, entered, target_price, stop_loss,
                   composite_chance, expectancy, final_recommendation, chance_threshold,
                   expectancy_threshold, report>>

SpecEvaluate == InitEvaluate /\ [][CallEvaluate]_vars

\* the day range and the place of the price in it, ten times over, as integers
DayRange == IntOf(data.day_high) - IntOf(data.day_low)

TenTimesAboveLow == 10 * (IntOf(data.current_price) - IntOf(data.day_low))

\* range_ratio < 0.3 and range_ratio > 0.7, the ratio 0.5 for an empty range
NearDayLow ==
    \/ (DayRange > 0 /\ TenTimesAboveLow < 3 * DayRange)
    \/ (DayRange < 0 /\ TenTimesAboveLow > 3 * DayRange)

NearDayHigh ==
    \/ (DayRange > 0 /\ TenTimesAboveLow > 7 * DayRange)
    \/ (DayRange < 0 /\ TenTimesAboveLow < 7 * DayRange)

Bearish ==
    \/ data.market_cap = FromInt(SMALL_CAP - 1)
    \/ IntOf(data.current_price) <= IntOf(data.price_avg50)
    \/ IntOf(data.current_price) <= IntOf(data.price_avg200)

\* C2: evaluate_stock_for_trade returns Buy whenever range_ratio < 0.3 and
\* Sell whenever range_ratio > 0.7, whatever the market cap and the moving
\* averages; between the two it returns Sell if the market cap is below
\* 1,000,000,000 or the price is not above both averages, and Hold otherwise.
C2_RuleCascade ==
    pc = "returned" =>
        /\ exc = "none"
        /\ tech_based_recommendation =
               IF NearDayLow THEN "Buy"
               ELSE IF NearDayHigh THEN "Sell"
               ELSE IF Bearish THEN "Sell"
               ELSE "Hold"

\* the day-range rule turns the Sell of the other rules into Buy
C2_Witness ==
    /\ pc = "returned"
    /\ tech_based_recommendation = "Buy"
    /\ Bearish
    /\ NearDayLow

Amounts == Num(-1..MaxAmount) \cup {PyNone}

WideStatements == [revenue : Amounts, netIncome : Amounts]

WideEarlier == [revenue : Amounts, netIncome : {One}]

WideFundResponses ==
    Unavailable
        \cup {[status |-> "ok", json |-> j] : j \in Periods(WideStatements, WideEarlier)}

InitFundamental ==
    /\ pc = "call"
    /\ fund \in WideFundResponses
    /\ data = PyNone
    /\ composite_chance = PyNone
    /\ expectancy = PyNone
    /\ chance_threshold = CHANCE_THRESHOLD
    /\ expectancy_threshold = EXPECTANCY_THRESHOLD
    /\ final_recommendation = "unset"
    /\ tech_based_recommendation = "unset"
    /\ fundamental_score = PyNone
    /\ Untouched

Scored(r) ==
    /\ fundamental_score' = r.ret
    /\ out' = out \o r.out

CallFundamentalScore ==
    /\ pc = "call"
    /\ pc' = "returned"
    /\ Scored(get_fundamental_score(fund))
    /\ UNCHANGED <<quote, data, fund, entered, target_price, stop_loss, composite_chance,
                   expectancy, tech_based_recommendation, price_to_day_low_ratio,
                   final_recommendation, chance_threshold, expectancy_threshold,
                   report, exc>>

SpecFundamental == InitFundamental /\ [][CallFundamentalScore]_vars

\* fewer than two periods, the provider's failure among them
FewerThanTwoPeriods == fund.status # "ok" \/ Len(fund.json) < 2

RevenueLatest == fund.json[1].revenue

RevenuePrevious == fund.json[2].revenue

NetIncomeLatest == fund.json[1].netIncome

\* the cases the specification lists for the neutral score
ListedNeutral ==
    \/ FewerThanTwoPeriods
    \/ IsNone(RevenueLatest) \/ IsNone(RevenuePrevious) \/ IsNone(NetIncomeLatest)
    \/ IntOf(RevenuePrevious) = 0

\* clamp[0,1] of the quotient n / d of two integers, d # 0
ClampedQuotient(n, d) ==
    IF n * d <= 0 THEN FZero
    ELSE IF (IF n < 0 THEN -n ELSE n) >= (IF d < 0 THEN -d ELSE d) THEN One
    ELSE FDiv(FromInt(n), FromInt(d))

ClampedGrowth ==
    ClampedQuotient(IntOf(RevenueLatest) - IntOf(RevenuePrevious), IntOf(RevenuePrevious))

\* with a latest revenue of zero the margin is read as plus or minus infinity,
\* or as any value for 0 / 0
ClampedMargins ==
    IF IntOf(RevenueLatest) # 0
    THEN {ClampedQuotient(IntOf(NetIncomeLatest), IntOf(RevenueLatest))}
    ELSE IF IntOf(NetIncomeLatest) > 0 THEN {One}
    ELSE IF IntOf(NetIncomeLatest) < 0 THEN {FZero}
    ELSE {FZero, Half, One}

MeanOf(a, b) == FDiv(FAdd(a, b), Two)

\* C3 as stated: 0.5 in the listed cases, the mean of the two clamped ratios
\* in every other case.
C3_AsStated ==
    pc = "returned" =>
        IF ListedNeutral THEN fundamental_score = Half
        ELSE \E margin \in ClampedMargins : fundamental_score = MeanOf(margin, ClampedGrowth)

\* C3, amended: get_fundamental_score returns exactly 0.5 when fewer than two
\* periods are available, a required field is missing, the revenue of either
\* period is zero or the latest net income is unavailable; in every other case
\* it returns the mean of the growth and the margin, each clamped to [0,1].
C3_NeutralOrMean ==
    pc = "returned" =>
        IF ListedNeutral \/ IntOf(RevenueLatest) = 0 THEN fundamental_score = Half
        ELSE fundamental_score =
                 MeanOf(ClampedQuotient(IntOf(NetIncomeLatest), IntOf(RevenueLatest)),
                        ClampedGrowth)

\* a score computed from the data, neither ratio clamped
C3_Witness ==
    /\ pc = "returned"
    /\ ~FewerThanTwoPeriods
    /\ ~IsNone(RevenueLatest) /\ ~IsNone(RevenuePrevious) /\ ~IsNone(NetIncomeLatest)
    /\ IntOf(RevenueLatest) = 3 /\ IntOf(RevenuePrevious) = 2 /\ IntOf(NetIncomeLatest) = 1
    /\ fundamental_score = MeanOf(FDiv(FromInt(1), FromInt(3)), Half)

(***************************************************************************)
(* Properties of main                                                      *)
(***************************************************************************)
\* the quote provider reports a transport failure, an error status or an empty payload
QuoteUnavailable == pc # "start" /\ (quote.status # "ok" \/ quote.json = <<>>)

QuoteAvailable == pc # "start" /\ ~IsNone(data)

\* one of the lines entered does not read as a number
ParseFailure == \E i \in 1..Len(entered) : "garbage" \in DOMAIN entered[i]

BothParsed == Len(entered) = 2 /\ ~ParseFailure

NothingAnalysed ==
    /\ composite_chance = PyNone
    /\ expectancy = PyNone
    /\ tech_based_recommendation = "unset"
    /\ price_to_day_low_ratio = PyNone
    /\ final_recommendation = "unset"
    /\ report = PyNone
    /\ exc = "none"

NoFundamentals == fund = PyNone /\ fundamental_score = PyNone

\* C4: when the quote is unavailable or a trade parameter does not parse, the
\* run ends with no composite chance, no expectancy, no call of the signal
\* evaluator or of the decision, and no recommendation reported; when the
\* quote is unavailable the fundamentals are never fetched; and the quote
\* is fetched before the fundamentals, the fundamentals before the analysis.
C4_FatalErrors ==
    /\ QuoteUnavailable => pc = "exit" /\ NoFundamentals /\ entered = <<>> /\ NothingAnalysed
    /\ ParseFailure => pc = "exit" /\ NothingAnalysed
    /\ ~NoFundamentals => QuoteAvailable /\ ~IsNone(fund) /\ ~IsNone(fundamental_score)
    /\ entered # <<>> => ~NoFundamentals
    /\ ~NothingAnalysed => BothParsed

\* the stop-loss does not parse, after a quote, a score and a target that did
C4_Witness ==
    /\ pc = "exit"
    /\ QuoteAvailable
    /\ ~NoFundamentals
    /\ Len(entered) = 2
    /\ "garbage" \in DOMAIN entered[2]
    /\ target_price = FromInt(4)
    /\ NothingAnalysed

\* the fundamentals from which no score is computed
InsufficientFundamentals ==
    /\ ~IsNone(fund)
    /\ \/ fund.status # "ok"
       \/ Len(fund.json) < 2
       \/ InsufficientFields(fund.json[1].revenue, fund.json[2].revenue,
                             fund.json[1].netIncome)

Analysed == pc \in {"done", "crashed"}

\* C5: with a quote and two trade parameters that parse, whatever the
\* fundamentals provider answers, the run goes on, with the score 0.5 where
\* the fundamentals are insufficient, and reports the technical
\* recommendation and the final decision.
C5_FundamentalsNotFatal ==
    /\ (QuoteAvailable /\ InsufficientFundamentals) => fundamental_score = Half
    /\ (QuoteAvailable /\ BothParsed /\ Analysed) =>
           /\ pc = "done"
           /\ ~IsNone(report)
           /\ report.technical_recommendation \in Recommendations
           /\ report.final_decision \in Recommendations

InUnitInterval(x) == IsNum(x) /\ FCmp(FZero, x) <= 0 /\ FCmp(x, One) <= 0

\* C6: in every completed evaluation the technical chance, the fundamental
\* score and the composite chance, 0.7 times the one plus 0.3 times the
\* other, each lie in [0,1].
C6_Probabilities ==
    pc = "done" =>
        /\ InUnitInterval(report.technical_chance)
        /\ InUnitInterval(report.fundamental_score)
        /\ InUnitInterval(report.composite_chance)
        /\ report.composite_chance =
               FAdd(FMul(FDiv(FromInt(7), FromInt(10)), report.technical_chance),
                    FMul(FDiv(FromInt(3), FromInt(10)), report.fundamental_score))

\* a certain technical chance with a score computed from two statements
C6_Witness ==
    /\ pc = "done"
    /\ report.technical_chance = One
    /\ ~InsufficientFundamentals
    /\ report.fundamental_score = FDiv(FromInt(3), FromInt(4))
    /\ FCmp(report.composite_chance, report.fundamental_score) > 0

ZeroDivisionReported == \E i \in 1..Len(out) : out[i][Len(out[i])] = "ZeroDivisionError"

SamePrices == data.current_price = target_price /\ target_price = stop_loss

EmptyDayRange == data.day_high = data.day_low

ZeroRevenue ==
    /\ ~IsNone(fund) /\ fund.status = "ok" /\ Len(fund.json) >= 2
    /\ \/ fund.json[1].revenue = FZero
       \/ fund.json[2].revenue = FZero

\* C7: no computation divides by zero: the technical chance is 0.5 when the
\* current price, the target and the stop-loss are equal, the day-range
\* ratio is 0.5 when the day's high equals its low, and the fundamental
\* score is 0.5 when a revenue by which it would divide is zero.
C7_NoDivisionByZero ==
    /\ exc # "ZeroDivisionError"
    /\ ~ZeroDivisionReported
    /\ (pc \in {"parsed", "done", "crashed"} /\ SamePrices) =>
           calculate_technical_chance_of_winning(data.current_price, target_price, stop_loss)
               = Half
    /\ (pc = "done" /\ SamePrices) => report.technical_chance = Half
    /\ (pc = "done" /\ EmptyDayRange) => price_to_day_low_ratio = Half
    /\ ZeroRevenue => fundamental_score = Half

\* all three fallbacks in one run
C7_Witness ==
    /\ pc = "done"
    /\ SamePrices
    /\ EmptyDayRange
    /\ ZeroRevenue
    /\ fund.json[1].revenue = FZero
    /\ report.technical_chance = Half
    /\ price_to_day_low_ratio = Half
    /\ fundamental_score = Half

\* C8: the signal evaluator completes and returns Buy, Sell or Hold on every
\* quote, one without a market cap among them, so that a quote with two
\* trade parameters that parse ends in a reported evaluation, not an error.
C8_EvaluatorCompletes ==
    /\ pc # "crashed"
    /\ exc = "none"
    /\ pc = "done" => tech_based_recommendation \in Recommendations

LongSetup == FLt(stop_loss, data.current_price) /\ FLt(data.current_price, target_price)

\* C10 as stated: for a long setup the expectancy has the sign of the
\* fundamental score less the technical chance, and with the neutral score
\* of insufficient fundamentals the decision is never Buy.
C10_SignOfExpectancy ==
    (pc = "done" /\ LongSetup) =>
        /\ FCmp(expectancy, FZero) = FCmp(fundamental_score, report.technical_chance)
        /\ (InsufficientFundamentals /\ fundamental_score = Half)
               => final_recommendation # "Buy"

\* C10, amended: with the default weights and thresholds, for a long setup
\* (stop_loss < current < target) and the neutral score 0.5 of insufficient
\* fundamentals, the final decision is never Buy.
C10_NeutralNeverBuy ==
    (pc = "done" /\ LongSetup /\ fundamental_score = Half) =>
        /\ final_recommendation # "Buy"
        /\ report.final_decision # "Buy"

\* a long setup on the neutral score whose chance passes the threshold
C10_Witness ==
    /\ pc = "done"
    /\ LongSetup
    /\ InsufficientFundamentals
    /\ fundamental_score = Half
    /\ FCmp(composite_chance, chance_threshold) >= 0
    /\ final_recommendation = "Hold"

====
